---- MODULE Spec2Model ----
(***************************************************************************)
(* Model of optimization/optimizer.py: Optimizer.optimize,                 *)
(* Optimizer.Bayesian_optimization and Optimizer._objective_function.      *)
(*                                                                         *)
(* One behaviour is one call of optimize().  The configuration is the      *)
(* dictionary default_parameters after optimize() has merged the caller's  *)
(* optimization_parameters into it.  The driver is followed statement by   *)
(* statement at the grain of one objective evaluation: a minimizer call is *)
(* started (StartCall), evaluates the objective n_calls times (Evaluate,   *)
(* with the callbacks run after each evaluation), returns (Return), and    *)
(* the chunk loop advances (ChunkBoundary).                                *)
(*                                                                         *)
(* The metric scores are inputs.  Each evaluation draws its score from     *)
(* Scores; at most MaxVaried evaluations of a run draw a score other than  *)
(* BaseScore.  No x0/y0 is supplied by the caller (X0 = Y0 = [None]).      *)
(***************************************************************************)
EXTENDS Integers, Sequences, FiniteSets, TLC

\* ------------------------------------------------------------------ bounds
MaxCalls == 4
MaxTrials == 3
MaxStep == 2
MaxRandomStarts == 2
MaxVaried == 1

\* The metric scores an evaluation can produce (positive, so that a score and
\* its negation differ).
BaseScore == 1
Scores == {BaseScore, BaseScore + 1}

Minimizers == {"dummy_minimize", "forest_minimize", "gp_minimize"}
OptimizationTypes == {"Maximize", "Minimize"}

\* Defaults of the options that the selected branch never reads.
DefaultSaveStep == 1
DefaultEarlyStep == 10

\* The largest different_iteration that Bayesian_optimization refuses.
RefusedTrials == 2

\* save_name: the default, a relative path, and an absolute path.
DefaultSaveName == "partial_result"
SaveNames == {DefaultSaveName, "/partial_result"}

VARIABLES
    default_parameters,   \* the configuration dictionary of this optimize() call
    pc,                   \* position of the driver
    message,              \* the error message printed by Bayesian_optimization
    chunk,                \* 0 in the first for loop, then the while iteration
    i,                    \* trial index of the for loop
    res,                  \* res[i]: result of trial i (function on 0..len-1)
    number_of_call_r,     \* remaining budget of the chunk loop
    early_stop_flag,      \* GP early stop: per-trial flag
    checkpoint,           \* files written by CheckpointSaver / tool.dump_BO
    partial_res,          \* tool.load_BO snapshot of the current chunk
    x0_restored,          \* prior history handed to the current minimizer call
    opt,                  \* the running minimizer call: [Xi, yi, n_calls, left, ...]
    iterations,           \* self._iterations
    optimize_result,      \* what Bayesian_optimization returned
    report,               \* the Best_evaluation built by optimize()
    exception,            \* the exception that ended the run, "" when none
    calls,                \* every minimizer call made so far (history variable)
    stopped,              \* trials whose early-stop rule has fired (history variable)
    varied,               \* evaluations so far whose score was not BaseScore
    failure,              \* the objective evaluation that raised (history variable)
    lost,                 \* the checkpoint file that was lost (history variable)
    metric,               \* the coherence metric object: its class
    topics,               \* self.topics of the metric: model_output[0]
    topk,                 \* self.topk of the metric
    outcome,              \* what metric.score() did
    search_space,         \* self.search_space: its keys, in the order of the dict
    hyperparameters,      \* self.hyperparameters
    params,               \* the params dictionary given to model.train_model
    extra_metrics,        \* self.extra_metrics: the class name of each metric
    metrics_values,       \* the metrics_values dictionary of one evaluation
    Optimizer_iterations, \* the class attribute Optimizer._iterations
    optimizers,           \* the Optimizer instances: their attributes
    reports,              \* what the optimize() calls made so far have reported
    arguments             \* arguments of Bayesian_optimization that it also reads
                          \* from default_parameters: n_random_starts

\* The variables of the failures of the driver's collaborators, and of the metrics.
env_vars == <<failure, lost>>
metric_vars == <<metric, topics, topk, outcome>>

\* The variables of _objective_function's dictionaries, and of the Optimizer
\* instances of the process.
objective_vars == <<search_space, hyperparameters, params, extra_metrics, metrics_values>>
process_vars == <<Optimizer_iterations, optimizers, reports>>

vars == <<default_parameters, pc, message, chunk, i, res, number_of_call_r,
          early_stop_flag, checkpoint, partial_res, x0_restored, opt, iterations,
          optimize_result, report, exception, calls, stopped, varied,
          env_vars, metric_vars, objective_vars, process_vars, arguments>>

\* ----------------------------------------------------------------- helpers
minimizer == default_parameters.minimizer
number_of_call == default_parameters.n_calls
different_iteration == default_parameters.different_iteration
n_random_starts == arguments.n_random_starts
save == default_parameters.save
save_step == default_parameters.save_step
early_stop == default_parameters.early_stop
early_step == default_parameters.early_step
save_name == default_parameters.save_name
optimization_type == default_parameters.optimization_type

Trials == 0 .. (different_iteration - 1)

RECURSIVE SeqMin(_)
SeqMin(v) ==
    IF Len(v) = 1 THEN v[1]
    ELSE LET m == SeqMin(SubSeq(v, 1, Len(v) - 1))
         IN IF v[Len(v)] < m THEN v[Len(v)] ELSE m

Negate(v) == [k \in 1 .. Len(v) |-> 0 - v[k]]

IsPrefix(s, t) == Len(s) <= Len(t) /\ SubSeq(t, 1, Len(s)) = s

\* A Python bool used as a number (number_of_call - early_stop, opt.run(f, early_stop)).
AsInt(b) == IF b THEN 1 ELSE 0

\* skopt's OptimizeResult of a history: x_iters, func_vals, and fun = min(func_vals).
create_result(Xi, yi) ==
    [x_iters |-> Xi, func_vals |-> yi, fun |-> IF yi = <<>> THEN 0 ELSE SeqMin(yi)]

EmptyResult == create_result(<<>>, <<>>)

\* No minimizer call is running.
NoCall == [trial |-> 0, strategy |-> "none", Xi |-> <<>>, yi |-> <<>>,
           n_calls |-> 0, left |-> 0, callbacks |-> {}]

\* No objective evaluation has raised; no checkpoint file has been lost.
NoFailure == [raised |-> FALSE]
NoLoss == [lost |-> FALSE]

\* No metric is being scored.
NoScore == [raised |-> "", words |-> <<>>]
NoMetric ==
    /\ metric = "none"
    /\ topics = <<>>
    /\ topk = 0
    /\ outcome = NoScore

\* No search space is looked at and no evaluation is building its dictionaries;
\* no Optimizer has been constructed.
NoObjective ==
    /\ search_space = <<>>
    /\ hyperparameters = <<>>
    /\ params = <<>>
    /\ extra_metrics = <<>>
    /\ metrics_values = <<>>
NoProcess ==
    /\ Optimizer_iterations = <<>>
    /\ optimizers = <<>>
    /\ reports = <<>>

\* optimize() calls Bayesian_optimization with the values of default_parameters.
ThroughOptimize ==
    arguments = [n_random_starts |-> default_parameters.n_random_starts]

\* What Bayesian_optimization hands back to optimize(): None, or the list res.
ReturnedNone == [is_none |-> TRUE, results |-> <<>>]
ReturnedList(r) == [is_none |-> FALSE, results |-> r]
NoReport == [built |-> FALSE, results |-> <<>>, iterations |-> <<>>, best |-> 0]

\* Whether score a is better than score b in the direction of the optimization.
Better(a, b) == IF optimization_type = "Maximize" THEN a > b ELSE a < b

RECURSIVE BestUpTo(_, _)
\* The trial kept after the results 0 .. n have been looked at in order: a later
\* result replaces the one kept only if its score is strictly better.
BestUpTo(results, n) ==
    IF n = 0 THEN 0
    ELSE LET kept == BestUpTo(results, n - 1)
         IN  IF Better(results[n].fun, results[kept].fun) THEN n ELSE kept

\* Best_evaluation(hyperparameters, optimize_result, iterations, metric name): the
\* position in optimize_result of the result it names as best.
Best_evaluation(results) == BestUpTo(results, Cardinality(DOMAIN results) - 1)

\* ------------------------------------------------- the driver's branching
\* The five branches of each minimizer section, in the order the code tests them.
Branch ==
    IF save = FALSE /\ early_stop = FALSE THEN "single"
    ELSE IF (save_step >= number_of_call /\ save = TRUE)
            /\ (early_step >= number_of_call \/ early_stop = FALSE) THEN "single_save"
    ELSE IF save = TRUE /\ early_stop = FALSE THEN "save"
    ELSE IF save = FALSE /\ early_stop = TRUE THEN "early"
    ELSE "save_early"

\* The GP early-stop-only branch is the one that keeps early_stop_flag and chunks
\* the run by early_step.
GPEarly == minimizer = "gp_minimize" /\ Branch = "early"

\* Branches with a while loop over number_of_call_r.
Chunked == Branch \in {"save", "save_early"} \/ GPEarly

\* The minimizer function each call goes to.  The GP section's save-and-early-stop
\* branch calls forest_minimize in the first chunk and dummy_minimize afterwards.
Strategy(c) ==
    IF minimizer = "gp_minimize" /\ Branch = "save_early"
    THEN (IF c = 0 THEN "forest_minimize" ELSE "dummy_minimize")
    ELSE minimizer

\* Mutant of Callbacks: the chunked save branch forgets the CheckpointSaver.
Callbacks_NoSaver ==
    IF minimizer = "gp_minimize" /\ Branch # "save_early" THEN {}
    ELSE CASE Branch = "single" -> {}
           [] Branch = "single_save" -> {"CheckpointSaver"}
           [] Branch = "save" -> {}
           [] Branch = "early" -> {"MyCustomEarlyStopper"}
           [] OTHER -> {"CheckpointSaver", "MyCustomEarlyStopper"}

\* The callbacks handed to the minimizer call.  The GP section passes callbacks only
\* in its save-and-early-stop branch; elsewhere it calls opt.run without any.
Callbacks ==
    IF minimizer = "gp_minimize" /\ Branch # "save_early" THEN {}
    ELSE CASE Branch = "single" -> {}
           [] Branch = "single_save" -> {"CheckpointSaver"}
           [] Branch = "save" -> {"CheckpointSaver"}
           [] Branch = "early" -> {"MyCustomEarlyStopper"}
           [] OTHER -> {"CheckpointSaver", "MyCustomEarlyStopper"}

\* The GP section saves with tool.dump_BO after each for loop (also in its
\* early-stop-only branch) and restores with tool.load_BO.
DumpsAfterChunk ==
    minimizer = "gp_minimize" /\ Branch \in {"single_save", "save", "early"}

\* x0[i] == None for every trial: len_x0 = 0.
len_x0 == 0

\* Mutant of DummyFirstCalls: save_step is used in every branch.
DummyFirstCalls_SaveStep == save_step

\* n_calls of the first for loop.
DummyFirstCalls ==
    IF Branch \in {"save", "save_early"} THEN save_step ELSE number_of_call

ForestFirstCalls ==
    IF Branch \in {"save", "save_early"}
    THEN (IF save_step >= n_random_starts + len_x0 THEN save_step
          ELSE save_step + n_random_starts)
    ELSE number_of_call

GPFirstCalls ==
    CASE Branch \in {"save", "save_early"} -> save_step
      [] Branch = "early" -> early_step
      [] OTHER -> number_of_call

FirstCalls ==
    CASE minimizer = "dummy_minimize" -> DummyFirstCalls
      [] minimizer = "forest_minimize" -> ForestFirstCalls
      [] OTHER -> GPFirstCalls

\* number_of_call_r after the first for loop.
InitialRemaining ==
    IF GPEarly THEN number_of_call - AsInt(early_stop)
    ELSE number_of_call - save_step

\* Mutant of ResumedCalls: the chunk is the smaller of the two intervals.
ResumedCalls_SmallerStep(r) ==
    LET step == IF early_step < save_step THEN early_step ELSE save_step
    IN  IF r >= step THEN step ELSE r

\* n_calls of one while iteration with r calls remaining.
ResumedCalls(r) ==
    IF GPEarly
    THEN (IF r >= early_step THEN AsInt(early_stop) ELSE r)
    ELSE (IF r >= save_step THEN save_step ELSE r)

\* What one while iteration subtracts from number_of_call_r.
Decrement == IF GPEarly THEN AsInt(early_stop) ELSE save_step

\* Mutant of RandomStarts: the configured count is handed over in every chunk.
RandomStarts_Configured(c) == n_random_starts

\* n_random_starts handed to the minimizer: the configured count in the first
\* chunk, 0 in every resumed one.
RandomStarts(c) == IF c = 0 THEN n_random_starts ELSE 0

\* Whether a path name starts at the root of the file system.
IsAbsolute(name) == name = "/partial_result"

\* The file that the path  prefix + name + "_" + str(k) + ".pkl"  denotes, prefix
\* being "./" (dot) or empty.  "./" in front of a relative name denotes the
\* same file; in front of an absolute name it denotes a file below the working
\* directory.
File(name, dot, k) ==
    [name |-> name,
     dir |-> IF IsAbsolute(name) /\ ~dot THEN "/" ELSE "./",
     trial |-> k]

\* The checkpoint file trial k is restored from, and the one its first
\* CheckpointSaver writes (save_name + "_" + str(k) + ".pkl").
CheckpointKey(k) == File(save_name, FALSE, k)

\* The file checkpoint_saver[k] writes in chunk c.  Each full-size while iteration
\* builds a CheckpointSaver on "./" + save_name + "_" + str(k) + ".pkl" and stores
\* it in checkpoint_saver[k] after the minimizer call, so that the calls of the
\* first two chunks write save_name + "_" + str(k) + ".pkl" and every later call
\* writes the "./" path.
SaverKey(c, k) == IF c >= 2 THEN File(save_name, TRUE, k) ELSE CheckpointKey(k)

\* Whether writing the file can fail for want of its directory: the directory of
\* "./" + an absolute name need not exist.
DirectoryMayBeMissing(path) == IsAbsolute(path.name) /\ path.dir = "./"

\* The outcomes of the CheckpointSaver callback, when it runs: TRUE, the file is
\* written; FALSE, dump raises FileNotFoundError.
SaverOutcomes(saves, path) ==
    IF saves /\ DirectoryMayBeMissing(path) THEN BOOLEAN ELSE {TRUE}

\* Mutant of StopperRandomStarts: the stopper is given the count the minimizer
\* gets, which is 0 in a resumed chunk.
StopperRandomStarts_AsMinimizer == RandomStarts(chunk)

\* The n_random_starts given to MyCustomEarlyStopper and tool.early_condition:
\* the configured count, in every chunk.
StopperRandomStarts ==
    IF GPEarly THEN n_random_starts ELSE default_parameters.n_random_starts

\* ------------------------------------------- collaborators of the driver
\* The best-so-far trajectory has not improved over the last n_stop evaluations,
\* and the history holds at least n_stop + n_random evaluations.
NoImprovement(func_vals, n_stop, n_random) ==
    /\ n_stop >= 1
    /\ Len(func_vals) >= n_stop + n_random
    /\ SeqMin(SubSeq(func_vals, 1, Len(func_vals) - n_stop + 1)) <= SeqMin(func_vals)

\* optimization.stopper.MyCustomEarlyStopper(n_stop, n_random_starts), called
\* with the result after each evaluation.
MyCustomEarlyStopper(result, n_stop, n_random) ==
    NoImprovement(result.func_vals, n_stop, n_random)

\* optimization.optimizer_tool.early_condition(result, n_stop, n_random).
early_condition(result, n_stop, n_random) ==
    NoImprovement(result.func_vals, n_stop, n_random)

\* optimization.optimizer_tool.dump_BO(res, save_name): one file per trial.
dump_BO(results) ==
    [path \in {CheckpointKey(k) : k \in DOMAIN results} |-> results[path.trial]]

\* optimization.optimizer_tool.load_BO(checkpoint_saver): the saved results, by trial.
load_BO(files) ==
    [k \in {n \in Trials : CheckpointKey(n) \in DOMAIN files} |-> files[CheckpointKey(k)]]

\* skopt.callbacks.CheckpointSaver(path)(result): the file holds the result.
CheckpointSaver(files, path, result) ==
    (path :> result) @@ files

\* skopt's base_minimize refuses n_calls < n_random_starts (forest_minimize);
\* dummy_minimize sets its own count and skopt.Optimizer.run takes any n_iter.
\* No minimizer produces a result from no evaluation at all.
MinimizerRejects(strategy, n_calls, n_random, prior) ==
    \/ n_calls <= 0 /\ prior.x_iters = <<>>
    \/ /\ strategy = "forest_minimize"
       /\ n_calls < n_random + (IF prior.func_vals = <<>> THEN Len(prior.x_iters) ELSE 0)

\* Whether the minimizer runs its callbacks on the prior history before the first
\* new evaluation: base_minimize does after optimizer.tell(x0, y0).
TellRunsCallbacks(strategy, prior) ==
    strategy \in {"dummy_minimize", "forest_minimize"} /\ prior.x_iters # <<>>

\* ----------------------------------------------------- objective function
\* The objective evaluations made for trial k so far, in self._iterations.
EvaluationsOf(k) == {e \in 1 .. Len(iterations) : iterations[e].hyperparameters[1] = k}
Evaluated(k) == Cardinality(EvaluationsOf(k))

\* The point the minimizer asks next: a fresh one, named by its trial and by its
\* rank among the evaluations of the trial.
NextPoint(k) == <<k, Evaluated(k) + 1>>

\* What _objective_function returns for the metric score `result`.
objective_function(result) ==
    IF optimization_type = "Maximize" THEN 0 - result ELSE result

\* Mutant of iteration: the record holds the value handed to the minimizer.
iteration_Returned(vector, result) ==
    [hyperparameters |-> vector,
     metrics_values |-> IF optimization_type = "Maximize" THEN 0 - result ELSE result]

\* The record _objective_function appends to self._iterations.
iteration(vector, result) ==
    [hyperparameters |-> vector, metrics_values |-> result]

\* --------------------------------------------------------------- optimize
\* Mutant of SignCorrect: only fun is negated, func_vals is left as it is.
SignCorrect_FunOnly(r) ==
    IF optimization_type = "Maximize"
    THEN [x_iters |-> r.x_iters, func_vals |-> r.func_vals, fun |-> 0 - r.fun]
    ELSE r

\* Mutant of SignCorrect: the scores are negated in both directions.
SignCorrect_Always(r) ==
    [x_iters |-> r.x_iters, func_vals |-> Negate(r.func_vals), fun |-> 0 - r.fun]

\* optimize()'s sign correction of one result.
SignCorrect(r) ==
    IF optimization_type = "Maximize"
    THEN [x_iters |-> r.x_iters, func_vals |-> Negate(r.func_vals), fun |-> 0 - r.fun]
    ELSE r

\* Mutant of ValidationError: two trials are accepted.
ValidationError_TwoTrials ==
    IF number_of_call <= 0 THEN "Error: number_of_call can't be <= 0"
    ELSE IF different_iteration < 2
    THEN "Error: different iteration should be 3 or more"
    ELSE ""

\* Mutant of ValidationError: nothing is refused.
ValidationError_Accepts == ""

\* Bayesian_optimization's validation: the message it prints, "" when it accepts.
ValidationError ==
    IF number_of_call <= 0 THEN "Error: number_of_call can't be <= 0"
    ELSE IF different_iteration <= 2
    THEN "Error: different iteration should be 3 or more"
    ELSE ""

\* Mutant of ValidationResult: the (empty) result list is returned.
ValidationResult_EmptyList == ReturnedList(<<>>)

\* What Bayesian_optimization returns after printing a validation error.
ValidationResult == ReturnedNone

Configurations ==
    [minimizer : Minimizers,
     n_calls : 0 .. MaxCalls,
     different_iteration : {RefusedTrials, MaxTrials},
     n_random_starts : 1 .. MaxRandomStarts,
     save : BOOLEAN,
     save_step : (1 .. MaxStep) \cup {DefaultSaveStep},
     early_stop : BOOLEAN,
     early_step : (1 .. MaxStep) \cup {DefaultEarlyStep},
     save_name : SaveNames,
     optimization_type : OptimizationTypes]

\* The driver before Bayesian_optimization has run.
Idle ==
    /\ pc = "optimize"
    /\ message = ""
    /\ chunk = 0
    /\ i = 0
    /\ res = <<>>
    /\ number_of_call_r = 0
    /\ early_stop_flag = <<>>
    /\ checkpoint = <<>>
    /\ partial_res = <<>>
    /\ x0_restored = EmptyResult
    /\ opt = NoCall
    /\ iterations = <<>>
    /\ optimize_result = ReturnedNone
    /\ report = NoReport
    /\ exception = ""
    /\ calls = <<>>
    /\ stopped = {}
    /\ failure = NoFailure
    /\ lost = NoLoss

\* The configurations optimize() is entered with: an option that the selected
\* branch never reads keeps its default.
StartConfigurations ==
    {c \in Configurations :
        /\ (c.save = FALSE => c.save_step = DefaultSaveStep)
        /\ (c.save_name # DefaultSaveName =>
               /\ c.save = TRUE
               /\ c.n_calls > 2 * c.save_step
               /\ ~(c.minimizer = "gp_minimize" /\ c.early_stop = FALSE))
        /\ (c.minimizer # "forest_minimize" /\ c.early_stop = FALSE
               => c.n_random_starts = 1)
        /\ (c.early_stop = FALSE => c.early_step = DefaultEarlyStep)
        /\ (c.early_stop = TRUE => c.early_step <= MaxStep)}

\* The state in which optimize() is entered, the score budget aside.
Start ==
    /\ default_parameters \in StartConfigurations
    /\ ThroughOptimize
    /\ Idle
    /\ NoMetric
    /\ NoObjective
    /\ NoProcess

Init == Start /\ varied = 0

\* optimize() up to the validation of Bayesian_optimization, which fails: the
\* message is printed and None is returned.
ConfigError ==
    /\ pc = "optimize"
    /\ ValidationError # ""
    /\ message' = ValidationError
    /\ optimize_result' = ValidationResult
    /\ iterations' = <<>>
    /\ pc' = "returned"
    /\ UNCHANGED <<default_parameters, chunk, i, res, number_of_call_r,
                   early_stop_flag, checkpoint, partial_res, x0_restored, opt,
                   report, exception, calls, stopped, varied>>
    /\ UNCHANGED <<env_vars, metric_vars, objective_vars, process_vars, arguments>>

\* optimize() up to the first for loop of the selected branch.
StartRun ==
    /\ pc = "optimize"
    /\ ValidationError = ""
    /\ iterations' = <<>>
    /\ res' = <<>>
    /\ early_stop_flag' = [k \in Trials |-> FALSE]
    /\ chunk' = 0
    /\ i' = 0
    /\ pc' = "trial"
    /\ UNCHANGED <<default_parameters, message, number_of_call_r, checkpoint,
                   partial_res, x0_restored, opt, optimize_result, report,
                   exception, calls, stopped, varied>>
    /\ UNCHANGED <<env_vars, metric_vars, objective_vars, process_vars, arguments>>

\* The prior history of a resumed call: load(save_name_t) in the dummy and forest
\* loops, partial_res[i] (tool.load_BO, taken at the top of the iteration) in the
\* GP loops.
Restore(k) ==
    IF DumpsAfterChunk THEN partial_res[k]
    ELSE IF CheckpointKey(k) \in DOMAIN checkpoint THEN checkpoint[CheckpointKey(k)]
    ELSE EmptyResult

\* Mutant of RestoreFails: a missing file is taken for an empty history.
RestoreFails_Never(k) == FALSE

\* load(save_name_t) raises when the file is not there.
RestoreFails(k) ==
    IF DumpsAfterChunk THEN k \notin DOMAIN partial_res
    ELSE CheckpointKey(k) \notin DOMAIN checkpoint

\* Mutant of NextTrial: the loop visits trial 2 before trial 1.
NextTrial_Swapped(k) == IF k = 0 THEN 2 ELSE IF k = 2 THEN 1 ELSE IF k = 1 THEN 3 ELSE k + 1

\* for i in range(different_iteration): the trial after trial k.
NextTrial(k) == k + 1

\* Mutant of Skipped: one flag for all trials.
Skipped_AnyFlag(k) == GPEarly /\ \E j \in Trials : early_stop_flag[j] = TRUE

\* Mutant of Skipped: the loop body runs whatever the flag says.
Skipped_Never(k) == FALSE

\* The loop body of trial k is guarded by early_stop_flag[k] == False (GP early stop).
Skipped(k) == GPEarly /\ early_stop_flag[k] = TRUE

\* The for loop skips trial i: early_stop_flag[i] is set.
SkipTrial ==
    /\ pc = "trial"
    /\ i < different_iteration
    /\ Skipped(i)
    /\ i' = NextTrial(i)
    /\ UNCHANGED <<default_parameters, pc, message, chunk, res, number_of_call_r,
                   early_stop_flag, checkpoint, partial_res, x0_restored, opt,
                   iterations, optimize_result, report, exception, calls, stopped,
                   varied>>
    /\ UNCHANGED <<env_vars, metric_vars, objective_vars, process_vars, arguments>>

\* The body of the for loop up to the minimizer's first evaluation: restore the
\* prior history (resumed chunks), build the call, tell it the prior history.
StartCall ==
    /\ pc = "trial"
    /\ i < different_iteration
    /\ ~Skipped(i)
    /\ LET resumed == chunk > 0
           failed == resumed /\ RestoreFails(i)
           prior == IF resumed /\ ~failed THEN Restore(i) ELSE EmptyResult
           strategy == Strategy(chunk)
           n == IF resumed THEN ResumedCalls(number_of_call_r) ELSE FirstCalls
           nrs == RandomStarts(chunk)
           rejected == MinimizerRejects(strategy, n, nrs, prior)
           told == TellRunsCallbacks(strategy, prior)
           saves == told /\ "CheckpointSaver" \in Callbacks
           path == SaverKey(chunk, i)
           stop == /\ told
                   /\ "MyCustomEarlyStopper" \in Callbacks
                   /\ MyCustomEarlyStopper(prior, early_step, StopperRandomStarts)
       IN IF failed \/ rejected
          THEN /\ pc' = "raised"
               /\ exception' = IF failed THEN "FileNotFoundError" ELSE "ValueError"
               /\ UNCHANGED <<x0_restored, opt, checkpoint, calls, stopped>>
          ELSE \E written \in SaverOutcomes(saves, path) :
               /\ x0_restored' = prior
               /\ opt' = [trial |-> i, strategy |-> strategy,
                           Xi |-> prior.x_iters, yi |-> prior.func_vals,
                           n_calls |-> n, left |-> n, callbacks |-> Callbacks]
               /\ calls' = Append(calls, [trial |-> i, chunk |-> chunk,
                                          strategy |-> strategy, n_calls |-> n,
                                          n_random_starts |-> nrs,
                                          prior |-> Len(prior.x_iters),
                                          resumed |-> resumed])
               /\ IF written
                  THEN /\ checkpoint' = IF saves
                                         THEN CheckpointSaver(checkpoint, path, prior)
                                         ELSE checkpoint
                       /\ stopped' = IF stop THEN stopped \cup {i} ELSE stopped
                       /\ pc' = IF stop \/ n <= 0 THEN "ret" ELSE "call"
                       /\ UNCHANGED exception
                  ELSE /\ pc' = "raised"
                       /\ exception' = "FileNotFoundError"
                       /\ UNCHANGED <<checkpoint, stopped>>
    /\ UNCHANGED <<default_parameters, message, chunk, i, res, number_of_call_r,
                   early_stop_flag, partial_res, iterations, optimize_result,
                   report, varied>>
    /\ UNCHANGED <<env_vars, metric_vars, objective_vars, process_vars, arguments>>

\* One iteration of the minimizer's loop: ask a point, call _objective_function
\* on it (which scores the model and appends to self._iterations), tell the
\* result, run the callbacks.
Evaluate ==
    /\ pc = "call"
    /\ \E score \in Scores :
         /\ (score # BaseScore => varied < MaxVaried)
         /\ LET next_x == NextPoint(opt.trial)
                next_y == objective_function(score)
                Xi == Append(opt.Xi, next_x)
                yi == Append(opt.yi, next_y)
                result == create_result(Xi, yi)
                saves == "CheckpointSaver" \in opt.callbacks
                path == SaverKey(chunk, opt.trial)
                stop == /\ "MyCustomEarlyStopper" \in opt.callbacks
                        /\ MyCustomEarlyStopper(result, early_step, StopperRandomStarts)
            IN /\ iterations' = Append(iterations, iteration(next_x, score))
               /\ opt' = [opt EXCEPT !.Xi = Xi, !.yi = yi, !.left = opt.left - 1]
               /\ varied' = IF score # BaseScore THEN varied + 1 ELSE varied
               /\ \E written \in SaverOutcomes(saves, path) :
                    IF written
                    THEN /\ checkpoint' = IF saves
                                           THEN CheckpointSaver(checkpoint, path, result)
                                           ELSE checkpoint
                         /\ stopped' = IF stop THEN stopped \cup {opt.trial}
                                       ELSE stopped
                         /\ pc' = IF stop \/ opt.left - 1 <= 0 THEN "ret" ELSE "call"
                         /\ UNCHANGED exception
                    ELSE /\ pc' = "raised"
                         /\ exception' = "FileNotFoundError"
                         /\ UNCHANGED <<checkpoint, stopped>>
    /\ UNCHANGED <<default_parameters, message, chunk, i, res, number_of_call_r,
                   early_stop_flag, partial_res, x0_restored, optimize_result,
                   report, calls>>
    /\ UNCHANGED <<env_vars, metric_vars, objective_vars, process_vars, arguments>>

\* Mutant of StoreResult: the result is appended to res in every chunk.
StoreResult_Append(results, k, result) ==
    (Cardinality(DOMAIN results) :> result) @@ results

\* Mutant of StoreResult: the results are kept in the reverse order of the trials.
StoreResult_Reversed(results, k, result) ==
    ((different_iteration - 1 - k) :> result) @@ results

\* res.append(result) in the first for loop, where len(res) = k, and
\* res[k] = result in the while loop.
StoreResult(results, k, result) ==
    (k :> result) @@ results

\* The minimizer call returns: res.append(...) in the first for loop, res[i] = ...
\* in the while loop; the GP early-stop branch then tests tool.early_condition.
Return ==
    /\ pc = "ret"
    /\ LET result == create_result(opt.Xi, opt.yi)
           flag == GPEarly /\ early_condition(result, early_step, StopperRandomStarts)
       IN /\ res' = StoreResult(res, i, result)
          /\ early_stop_flag' = IF flag THEN [early_stop_flag EXCEPT ![i] = TRUE]
                                 ELSE early_stop_flag
          /\ stopped' = IF flag THEN stopped \cup {i} ELSE stopped
    /\ opt' = NoCall
    /\ i' = NextTrial(i)
    /\ pc' = "trial"
    /\ UNCHANGED <<default_parameters, message, chunk, number_of_call_r, checkpoint,
                   partial_res, x0_restored, iterations, optimize_result, report,
                   exception, calls, varied>>
    /\ UNCHANGED <<env_vars, metric_vars, objective_vars, process_vars, arguments>>

\* The end of a for loop: tool.dump_BO (GP), the update of number_of_call_r, the
\* test of the while loop and, when it goes on, tool.load_BO (GP).  The loop is
\* followed for MaxCalls + 1 iterations at most.
ChunkBoundary ==
    /\ pc = "trial"
    /\ i = different_iteration
    /\ chunk <= MaxCalls
    /\ LET files == IF DumpsAfterChunk THEN dump_BO(res) ELSE checkpoint
           r == IF chunk = 0 THEN InitialRemaining ELSE number_of_call_r - Decrement
       IN /\ checkpoint' = files
          /\ IF Chunked
             THEN /\ number_of_call_r' = r
                  /\ IF r > 0
                     THEN /\ chunk' = chunk + 1
                          /\ i' = 0
                          /\ partial_res' = IF DumpsAfterChunk THEN load_BO(files)
                                             ELSE partial_res
                          /\ pc' = "trial"
                          /\ UNCHANGED optimize_result
                     ELSE /\ optimize_result' = ReturnedList(res)
                          /\ pc' = "returned"
                          /\ UNCHANGED <<chunk, i, partial_res>>
             ELSE /\ optimize_result' = ReturnedList(res)
                  /\ pc' = "returned"
                  /\ UNCHANGED <<chunk, i, partial_res, number_of_call_r>>
    /\ UNCHANGED <<default_parameters, message, res, early_stop_flag, x0_restored,
                   opt, iterations, report, exception, calls, stopped, varied>>
    /\ UNCHANGED <<env_vars, metric_vars, objective_vars, process_vars, arguments>>

\* optimize() after Bayesian_optimization returned a list: the sign correction
\* and the Best_evaluation.
Report ==
    /\ pc = "returned"
    /\ optimize_result.is_none = FALSE
    /\ report' = [built |-> TRUE,
                  results |-> [k \in DOMAIN optimize_result.results |->
                                  SignCorrect(optimize_result.results[k])],
                  iterations |-> iterations,
                  best |-> Best_evaluation(
                              [k \in DOMAIN optimize_result.results |->
                                  SignCorrect(optimize_result.results[k])])]
    /\ pc' = "reported"
    /\ UNCHANGED <<default_parameters, message, chunk, i, res, number_of_call_r,
                   early_stop_flag, checkpoint, partial_res, x0_restored, opt,
                   iterations, optimize_result, exception, calls, stopped, varied>>
    /\ UNCHANGED <<env_vars, metric_vars, objective_vars, process_vars, arguments>>

\* optimize() after Bayesian_optimization returned None, under 'Maximize':
\* len(optimize_result) raises TypeError.
ReportFailsLen ==
    /\ pc = "returned"
    /\ optimize_result.is_none = TRUE
    /\ optimization_type = "Maximize"
    /\ exception' = "TypeError"
    /\ pc' = "raised"
    /\ UNCHANGED <<default_parameters, message, chunk, i, res, number_of_call_r,
                   early_stop_flag, checkpoint, partial_res, x0_restored, opt,
                   iterations, optimize_result, report, calls, stopped, varied>>
    /\ UNCHANGED <<env_vars, metric_vars, objective_vars, process_vars, arguments>>

\* optimize() after Bayesian_optimization returned None, in the other direction:
\* tool.print_func_vals and Best_evaluation are given None; the driver exits
\* with an error and without a Best_evaluation.
ReportFailsNone ==
    /\ pc = "returned"
    /\ optimize_result.is_none = TRUE
    /\ optimization_type # "Maximize"
    /\ exception' = "Error"
    /\ pc' = "raised"
    /\ UNCHANGED <<default_parameters, message, chunk, i, res, number_of_call_r,
                   early_stop_flag, checkpoint, partial_res, x0_restored, opt,
                   iterations, optimize_result, report, calls, stopped, varied>>
    /\ UNCHANGED <<env_vars, metric_vars, objective_vars, process_vars, arguments>>

\* Mutant of Catches: the objective function swallows the exception and the
\* minimizer asks again.
Catches_Retries == TRUE

\* Whether an exception of train_model or of metric.score is caught on its way
\* out of _objective_function, the minimizer, Bayesian_optimization and optimize():
\* none of them has an exception handler.
Catches == FALSE

\* One iteration of the minimizer's loop in which model.train_model or
\* metric.score raises: _objective_function has appended nothing to
\* self._iterations, the minimizer has told nothing and run no callback.
EvaluateFails ==
    /\ pc = "call"
    /\ failure = NoFailure
    /\ failure' = [raised |-> TRUE, point |-> NextPoint(opt.trial), chunk |-> chunk,
                   iterations |-> iterations, checkpoint |-> checkpoint,
                   calls |-> calls]
    /\ IF Catches
       THEN UNCHANGED <<pc, exception>>
       ELSE /\ pc' = "raised"
            /\ exception' = "Exception"
    /\ UNCHANGED <<default_parameters, message, chunk, i, res, number_of_call_r,
                   early_stop_flag, checkpoint, partial_res, x0_restored, opt,
                   iterations, optimize_result, report, calls, stopped, varied>>
    /\ UNCHANGED <<lost, metric_vars, objective_vars, process_vars, arguments>>

\* Between two chunks the checkpoint file of one trial disappears (or becomes
\* unreadable).  In the GP loops tool.load_BO, at the top of the while iteration,
\* is the next thing to read it, and raises.
CheckpointLost ==
    /\ pc = "trial" /\ i = 0 /\ chunk > 0
    /\ lost = NoLoss
    /\ \E k \in Trials :
         /\ CheckpointKey(k) \in DOMAIN checkpoint
         /\ checkpoint' = [path \in DOMAIN checkpoint \ {CheckpointKey(k)} |->
                              checkpoint[path]]
         /\ lost' = [lost |-> TRUE, trial |-> k, chunk |-> chunk]
    /\ IF DumpsAfterChunk
       THEN /\ pc' = "raised"
            /\ exception' = "FileNotFoundError"
       ELSE UNCHANGED <<pc, exception>>
    /\ UNCHANGED <<default_parameters, message, chunk, i, res, number_of_call_r,
                   early_stop_flag, partial_res, x0_restored, opt, iterations,
                   optimize_result, report, calls, stopped, varied>>
    /\ UNCHANGED <<failure, metric_vars, objective_vars, process_vars, arguments>>

Next ==
    \/ ConfigError
    \/ StartRun
    \/ SkipTrial
    \/ StartCall
    \/ Evaluate
    \/ Return
    \/ ChunkBoundary
    \/ Report
    \/ ReportFailsLen
    \/ ReportFailsNone

Spec == Init /\ [][Next]_vars

\* The driver with failing collaborators: an objective evaluation may raise and a
\* checkpoint file may be lost.  Every metric score is BaseScore.
InitFailures == Start /\ varied = MaxVaried

NextFailures ==
    \/ Next
    \/ EvaluateFails
    \/ CheckpointLost

SpecFailures == InitFailures /\ [][NextFailures]_vars

\* optimize() entered with a save_step or an early_step of 0, which nothing
\* validates, as well as with the positive ones; every score is the base score.
InitUnvalidated ==
    /\ default_parameters \in
          {[c EXCEPT !.save_step = IF c.save THEN s ELSE @,
                     !.early_step = IF c.early_stop THEN e ELSE @] :
              c \in StartConfigurations, s \in 0 .. MaxStep, e \in 0 .. MaxStep}
    /\ ThroughOptimize
    /\ Idle
    /\ NoMetric
    /\ NoObjective
    /\ NoProcess
    /\ varied = MaxVaried

SpecUnvalidated == InitUnvalidated /\ [][Next]_vars

\* Bayesian_optimization called directly, with early_stop enabled and with an
\* n_random_starts of its own, whatever default_parameters holds; every score is
\* the base score.
InitDirect ==
    /\ default_parameters \in {c \in StartConfigurations : c.early_stop}
    /\ arguments \in [n_random_starts : 1 .. MaxRandomStarts]
    /\ Idle
    /\ NoMetric
    /\ NoObjective
    /\ NoProcess
    /\ varied = MaxVaried

\* Bayesian_optimization up to its return statement.
NextDirect ==
    \/ ConfigError
    \/ StartRun
    \/ SkipTrial
    \/ StartCall
    \/ Evaluate
    \/ Return
    \/ ChunkBoundary

SpecDirect == InitDirect /\ [][NextDirect]_vars

\* ------------------------------------------------------- coherence metrics
\* evaluation_metrics/coherence_metrics.py.  A metric object holds the topics of
\* the model output it was built with (self.topics = model_output[0]) and topk.
\* A topic is a list of words; a word either has an embedding ("w") or is out of
\* the vocabulary ("oov").
MaxTopics == 2
MaxWords == 2
MaxTopk == 2

Words == {"w", "oov"}
InVocab(word) == word = "w"

CoherenceMetrics ==
    {"Coherence", "Coherence_word_embeddings",
     "Coherence_word_embeddings_pairwise", "Coherence_word_embeddings_centroid"}

RECURSIVE SeqsUpTo(_, _)
\* The sequences over S of length 0 .. n.
SeqsUpTo(S, n) ==
    IF n = 0 THEN {<<>>}
    ELSE LET shorter == SeqsUpTo(S, n - 1)
         IN  shorter \cup {Append(s, e) : s \in {q \in shorter : Len(q) = n - 1}, e \in S}

TopicLists == SeqsUpTo(SeqsUpTo(Words, MaxWords), MaxTopics)

\* The module-level default_parameters dictionary, as far as the driver reads it.
DefaultParameters ==
    [minimizer |-> "gp_minimize", n_calls |-> 100, different_iteration |-> 10,
     n_random_starts |-> 10, save |-> FALSE, save_step |-> DefaultSaveStep,
     early_stop |-> FALSE, early_step |-> DefaultEarlyStep,
     save_name |-> DefaultSaveName, optimization_type |-> "Maximize"]

\* topic[0:self.topk]
Slice(topic) == SubSeq(topic, 1, IF topk < Len(topic) THEN topk ELSE Len(topic))

Raised(error) == [raised |-> error, words |-> <<>>]
Scored(words) == [raised |-> "", words |-> words]

\* if self.topk > len(self.topics[0])
TooFewWords == topk > Len(topics[1])

\* The first statement of every score(): self.topics[0] of an empty list is an
\* IndexError, a first topic shorter than topk is the 'too few words' Exception.
Check(scored) ==
    IF topics = <<>> THEN Raised("IndexError")
    ELSE IF TooFewWords THEN Raised("Words in topics are less than topk")
    ELSE scored

\* Coherence.score: CoherenceModel(topics=self.topics, ..., topn=self.topk) takes
\* the first topn words of each topic.
Coherence_words == [t \in DOMAIN topics |-> Slice(topics[t])]

\* Coherence_word_embeddings.score: empty topics are skipped, the others give
\* the pairs of topic[0:self.topk].
Coherence_word_embeddings_words ==
    LET nonempty == SelectSeq(topics, LAMBDA topic : Len(topic) > 0)
    IN  [t \in DOMAIN nonempty |-> Slice(nonempty[t])]

\* Coherence_word_embeddings_pairwise.score: the rows of E are the embeddings of
\* topic[0:self.topk]; pairwise_distances refuses an E without rows.
Coherence_word_embeddings_pairwise_outcome ==
    IF \E t \in DOMAIN topics :
          \A w \in DOMAIN Slice(topics[t]) : ~InVocab(Slice(topics[t])[w])
    THEN Raised("ValueError")
    ELSE Scored([t \in DOMAIN topics |-> Slice(topics[t])])

\* Coherence_word_embeddings_centroid.score: self.wv.__getitem__(topic[0]) needs
\* a first word with an embedding; the loop is over every word of the topic.
Coherence_word_embeddings_centroid_outcome ==
    IF \E t \in DOMAIN topics : Len(topics[t]) = 0 THEN Raised("IndexError")
    ELSE IF \E t \in DOMAIN topics : ~InVocab(topics[t][1]) THEN Raised("KeyError")
    ELSE Scored([t \in DOMAIN topics |-> topics[t]])

InitMetric ==
    /\ default_parameters = DefaultParameters
    /\ ThroughOptimize
    /\ Idle
    /\ varied = 0
    /\ metric \in CoherenceMetrics
    /\ topics \in TopicLists
    /\ topk \in 1 .. MaxTopk
    /\ outcome = NoScore
    /\ NoObjective
    /\ NoProcess

Coherence_score ==
    /\ metric = "Coherence" /\ outcome = NoScore
    /\ outcome' = Check(Scored(Coherence_words))
    /\ UNCHANGED <<default_parameters, pc, message, chunk, i, res, number_of_call_r,
                   early_stop_flag, checkpoint, partial_res, x0_restored, opt,
                   iterations, optimize_result, report, exception, calls, stopped,
                   varied, env_vars, metric, topics, topk,
                   objective_vars, process_vars, arguments>>

Coherence_word_embeddings_score ==
    /\ metric = "Coherence_word_embeddings" /\ outcome = NoScore
    /\ outcome' = Check(Scored(Coherence_word_embeddings_words))
    /\ UNCHANGED <<default_parameters, pc, message, chunk, i, res, number_of_call_r,
                   early_stop_flag, checkpoint, partial_res, x0_restored, opt,
                   iterations, optimize_result, report, exception, calls, stopped,
                   varied, env_vars, metric, topics, topk,
                   objective_vars, process_vars, arguments>>

Coherence_word_embeddings_pairwise_score ==
    /\ metric = "Coherence_word_embeddings_pairwise" /\ outcome = NoScore
    /\ outcome' = Check(Coherence_word_embeddings_pairwise_outcome)
    /\ UNCHANGED <<default_parameters, pc, message, chunk, i, res, number_of_call_r,
                   early_stop_flag, checkpoint, partial_res, x0_restored, opt,
                   iterations, optimize_result, report, exception, calls, stopped,
                   varied, env_vars, metric, topics, topk,
                   objective_vars, process_vars, arguments>>

Coherence_word_embeddings_centroid_score ==
    /\ metric = "Coherence_word_embeddings_centroid" /\ outcome = NoScore
    /\ outcome' = Check(Coherence_word_embeddings_centroid_outcome)
    /\ UNCHANGED <<default_parameters, pc, message, chunk, i, res, number_of_call_r,
                   early_stop_flag, checkpoint, partial_res, x0_restored, opt,
                   iterations, optimize_result, report, exception, calls, stopped,
                   varied, env_vars, metric, topics, topk,
                   objective_vars, process_vars, arguments>>

\* _objective_function: self.metric.score(model_output).  The score methods above
\* take no argument besides self, so the call is a TypeError before their first
\* statement.
objective_function_score ==
    /\ outcome = NoScore
    /\ outcome' = Raised("TypeError")
    /\ UNCHANGED <<default_parameters, pc, message, chunk, i, res, number_of_call_r,
                   early_stop_flag, checkpoint, partial_res, x0_restored, opt,
                   iterations, optimize_result, report, exception, calls, stopped,
                   varied, env_vars, metric, topics, topk,
                   objective_vars, process_vars, arguments>>

NextMetric ==
    \/ Coherence_score
    \/ Coherence_word_embeddings_score
    \/ Coherence_word_embeddings_pairwise_score
    \/ Coherence_word_embeddings_centroid_score
    \/ objective_function_score

SpecMetric == InitMetric /\ [][NextMetric]_vars

\* ------------------------------------------------------- derived quantities
RECURSIVE SumCalls(_, _)
SumCalls(log, k) ==
    IF log = <<>> THEN 0
    ELSE SumCalls(Tail(log), k) + (IF Head(log).trial = k THEN Head(log).n_calls ELSE 0)

\* The evaluations the driver has asked the minimizers for, for trial k.
Requested(k) == SumCalls(calls, k)

\* The minimizer calls made for trial k.
CallsOf(k) == {c \in 1 .. Len(calls) : calls[c].trial = k}

\* The history of trial k as the program holds it: the running call's, else res[k].
History(k) ==
    IF pc \in {"call", "ret"} /\ opt.trial = k THEN create_result(opt.Xi, opt.yi)
    ELSE IF k \in DOMAIN res THEN res[k]
    ELSE EmptyResult

Max0(n) == IF n > 0 THEN n ELSE 0

Running == pc \in {"trial", "call", "ret"}
Finished == pc = "reported"

\* The driver stands between two chunks of a chunked run, or at its end.
AtChunkBoundary ==
    /\ Chunked
    /\ \/ pc = "trial" /\ i = 0 /\ chunk > 0
       \/ pc \in {"returned", "reported"} /\ optimize_result.is_none = FALSE

\* ------------------------------------------------------------------ claims

\* C1: for every trial, the evaluations requested from the minimizers never exceed
\* number_of_call, no more than number_of_call evaluations are run, and at every
\* chunk boundary the evaluations requested so far plus the remaining budget
\* number_of_call_r equal number_of_call (trials stopped early aside).
C1_BudgetRespected ==
    ValidationError = "" =>
        \A k \in Trials :
            /\ Requested(k) <= number_of_call
            /\ Evaluated(k) <= number_of_call
            /\ (AtChunkBoundary /\ k \notin stopped
                    => Requested(k) + Max0(number_of_call_r) = number_of_call)

\* The running call has made some, but not all, of its evaluations.
MidChunk ==
    /\ pc = "call"
    /\ Len(opt.yi) > Len(x0_restored.func_vals)
    /\ opt.left > 0

\* The minimizer has been called for trial k in the current chunk.
CalledInChunk(k) == k < i \/ (k = i /\ pc \in {"call", "ret"})

\* The checkpoint file written last for trial k: by tool.dump_BO, or by the
\* CheckpointSaver of the trial's latest minimizer call.
WrittenKey(k) ==
    IF DumpsAfterChunk THEN CheckpointKey(k)
    ELSE IF CalledInChunk(k) \/ chunk = 0 THEN SaverKey(chunk, k)
    ELSE SaverKey(chunk - 1, k)

HasCheckpoint(k) == WrittenKey(k) \in DOMAIN checkpoint
CheckpointOf(k) == checkpoint[WrittenKey(k)]

\* The evaluations the driver asked for, for trial k, in the current chunk.
RequestedInChunk(k) ==
    SumCalls(SelectSeq(calls, LAMBDA c : c.chunk = chunk), k)

C3_ResumeKeepsHistory ==
    /\ (pc = "trial" /\ chunk > 0 /\ i < different_iteration /\ ~Skipped(i)) =>
            /\ ~RestoreFails(i)
            /\ Restore(i) = res[i]
    /\ (pc \in {"call", "ret"} /\ chunk > 0) =>
            /\ x0_restored = res[opt.trial]
            /\ IsPrefix(x0_restored.x_iters, opt.Xi)
            /\ IsPrefix(x0_restored.func_vals, opt.yi)

ScoreOf(x) ==
    LET e == CHOOSE n \in 1 .. Len(iterations) : iterations[n].hyperparameters = x
    IN iterations[e].metrics_values

Logged(x) == \E n \in 1 .. Len(iterations) : iterations[n].hyperparameters = x

\* C5: under 'Maximize' every value the minimizer holds for an evaluation is the
\* negation of its metric score, and after optimize() every func_vals entry of
\* every trial is the metric score itself and fun is the largest of them; under
\* any other optimization_type the values are the metric scores throughout.
C5_SignRestored ==
    /\ pc \in {"call", "ret"} =>
          \A j \in 1 .. Len(opt.yi) :
              /\ Logged(opt.Xi[j])
              /\ opt.yi[j] = (IF optimization_type = "Maximize"
                              THEN 0 - ScoreOf(opt.Xi[j])
                              ELSE ScoreOf(opt.Xi[j]))
    /\ Finished =>
          \A k \in DOMAIN report.results :
              LET r == report.results[k]
              IN /\ \A j \in 1 .. Len(r.func_vals) :
                        r.func_vals[j] = ScoreOf(r.x_iters[j])
                 /\ \E j \in 1 .. Len(r.func_vals) : r.fun = r.func_vals[j]
                 /\ \A j \in 1 .. Len(r.func_vals) :
                        IF optimization_type = "Maximize"
                        THEN r.func_vals[j] <= r.fun
                        ELSE r.func_vals[j] >= r.fun

\* C5 witness: a finished 'Maximize' run of resumed chunks whose first trial
\* scored BaseScore and then a higher score, reported as its best.
C5_Witness ==
    /\ Finished /\ optimization_type = "Maximize" /\ chunk > 0
    /\ Len(report.results[0].func_vals) >= 2
    /\ report.results[0].func_vals[1] = BaseScore
    /\ report.results[0].func_vals[2] = BaseScore + 1
    /\ report.results[0].fun = BaseScore + 1

\* C6 (as claimed): after a run with save enabled the final checkpoint of every
\* trial equals the result reported for the trial: same points, same order, same
\* scores.
C6_CheckpointEqualsReport ==
    Finished /\ save =>
        \A k \in Trials : HasCheckpoint(k) /\ CheckpointOf(k) = report.results[k]

\* C6 (amended): after a run with save enabled the final checkpoint of every trial
\* holds the points of the reported result in the same order; its scores are those
\* of the reported result when optimization_type is not 'Maximize' and their
\* negations under 'Maximize' (the checkpoint keeps the values the minimizer saw).
C6_CheckpointEqualsReportUpToSign ==
    Finished /\ save =>
        \A k \in Trials :
            /\ HasCheckpoint(k)
            /\ CheckpointOf(k).x_iters = report.results[k].x_iters
            /\ IF optimization_type = "Maximize"
               THEN /\ CheckpointOf(k).func_vals = Negate(report.results[k].func_vals)
                    /\ CheckpointOf(k).fun = 0 - report.results[k].fun
               ELSE /\ CheckpointOf(k).func_vals = report.results[k].func_vals
                    /\ CheckpointOf(k).fun = report.results[k].fun

\* C6 witness: a finished chunked 'Maximize' run with save enabled.
C6_Witness ==
    /\ Finished /\ save /\ chunk > 0 /\ optimization_type = "Maximize"
    /\ \A k \in Trials : HasCheckpoint(k) /\ Len(CheckpointOf(k).func_vals) >= 2

\* C7: with forest_minimize, save enabled, early_stop disabled and
\* save_step < number_of_call, the final history and the final checkpoint of every
\* trial hold exactly number_of_call records.
C7_ForestSaveLength ==
    (Finished /\ minimizer = "forest_minimize" /\ save /\ ~early_stop
        /\ save_step < number_of_call) =>
        \A k \in Trials :
            /\ Len(report.results[k].func_vals) = number_of_call
            /\ HasCheckpoint(k)
            /\ Len(CheckpointOf(k).func_vals) = number_of_call

\* C8: with dummy_minimize, save and early_stop disabled, every run makes exactly
\* one minimizer call per trial and reports different_iteration results of exactly
\* number_of_call records each.
C8_RandomSingleChunk ==
    (minimizer = "dummy_minimize" /\ ~save /\ ~early_stop) =>
        /\ \A k \in Trials : Cardinality(CallsOf(k)) <= 1
        /\ Finished =>
              /\ DOMAIN report.results = Trials
              /\ \A k \in Trials :
                    /\ Cardinality(CallsOf(k)) = 1
                    /\ Len(report.results[k].func_vals) = number_of_call
                    /\ Len(report.results[k].x_iters) = number_of_call

\* C8 witness: such a run has finished with more than one record per trial.
C8_Witness ==
    /\ Finished /\ minimizer = "dummy_minimize" /\ ~save /\ ~early_stop
    /\ number_of_call >= 2 /\ different_iteration >= 3

C10_TrialCountValidated ==
    /\ (different_iteration < 3 /\ pc # "optimize") =>
            /\ message # ""
            /\ (number_of_call > 0 =>
                    message = "Error: different iteration should be 3 or more")
            /\ calls = <<>>
            /\ report.built = FALSE
    /\ (different_iteration >= 3 /\ number_of_call > 0) =>
            /\ message = ""
            /\ \A c \in 1 .. Len(calls) : calls[c].trial < different_iteration
            /\ (pc \in {"returned", "reported"} =>
                    DOMAIN optimize_result.results = 0 .. (different_iteration - 1))

\* C10 witness: different_iteration = 2 with a positive budget has been refused.
C10_Witness ==
    /\ different_iteration = 2 /\ number_of_call > 0
    /\ pc = "raised" /\ message = "Error: different iteration should be 3 or more"

\* C11: on a configuration error (number_of_call <= 0 or different_iteration <= 2)
\* nothing of the optimization is attempted: no minimizer call, no objective
\* evaluation, no checkpoint written or loaded, an empty iteration log, no result.
C11_NoPartialRun ==
    (number_of_call <= 0 \/ different_iteration <= 2) =>
        /\ calls = <<>>
        /\ opt = NoCall
        /\ iterations = <<>>
        /\ checkpoint = <<>>
        /\ partial_res = <<>>
        /\ x0_restored = EmptyResult
        /\ res = <<>>
        /\ pc \in {"optimize", "returned", "raised"}

\* C11 witness: a positive budget with too few trials has been refused and
\* optimize() has ended.
C11_Witness ==
    /\ number_of_call > 0 /\ different_iteration <= 2
    /\ pc = "raised" /\ message # ""

\* C12: with early_stop enabled, for every minimizer, the early-stop rule fires for
\* a trial only when the trial's history holds at least n_random_starts
\* evaluations, also when early_step or the first chunk is smaller than
\* n_random_starts.
C12_NoStopBeforeWarmUp ==
    [][\A k \in stopped' \ stopped :
          /\ Len(History(k)'.func_vals) >= n_random_starts
          /\ Evaluated(k)' >= n_random_starts]_vars

\* C12 witness: a trial has been stopped in a run whose early_step and first chunk
\* are both smaller than n_random_starts.
C12_Witness ==
    /\ stopped # {}
    /\ early_stop
    /\ early_step < n_random_starts
    /\ FirstCalls < n_random_starts

\* C13: for every minimizer and every save/early_stop combination, a run that
\* passes validation ends either in a failure of a minimizer or of a checkpoint
\* operation, or with Bayesian_optimization returning a list of exactly
\* different_iteration entries, entry k holding the evaluations of trial k (all of
\* them its own and none of another trial), also when trials stopped early; the
\* Best_evaluation is then built from that list.
C13_OneResultPerTrial ==
    (number_of_call > 0 /\ different_iteration > 2) =>
        /\ (pc = "raised" => exception \in {"ValueError", "FileNotFoundError"})
        /\ (pc \in {"returned", "reported"} =>
               /\ optimize_result.is_none = FALSE
               /\ DOMAIN optimize_result.results = Trials
               /\ \A k \in Trials :
                     LET r == optimize_result.results[k]
                     IN /\ r.x_iters # <<>>
                        /\ Len(r.func_vals) = Len(r.x_iters)
                        /\ \A j \in 1 .. Len(r.x_iters) : r.x_iters[j][1] = k)
        /\ (pc = "reported" =>
               /\ report.built = TRUE
               /\ DOMAIN report.results = Trials
               /\ \A k \in Trials :
                     report.results[k].x_iters = optimize_result.results[k].x_iters)

\* C13 witness: a chunked run in which every trial stopped early has ended with
\* its Best_evaluation built.
C13_Witness ==
    /\ pc = "reported" /\ report.built
    /\ early_stop /\ chunk > 0
    /\ stopped = Trials

\* C14: when model.train_model or metric.score raises during an objective
\* evaluation the run ends with that exception: the evaluation is not retried, no
\* objective evaluation and no minimizer call follows for any trial, nothing is
\* appended to the iteration log for the failed evaluation, and no checkpoint is
\* written at or after the failure.
C14_FailureAborts ==
    failure.raised =>
        /\ pc = "raised"
        /\ exception = "Exception"
        /\ iterations = failure.iterations
        /\ ~Logged(failure.point)
        /\ calls = failure.calls
        /\ checkpoint = failure.checkpoint
        /\ \A path \in DOMAIN checkpoint :
              \A j \in 1 .. Len(checkpoint[path].x_iters) :
                  checkpoint[path].x_iters[j] # failure.point
        /\ report.built = FALSE

\* C14 witness: an evaluation raised in the middle of a resumed chunk of a run
\* with save enabled, after an evaluation of that chunk had been checkpointed.
C14_Witness ==
    /\ failure.raised /\ pc = "raised"
    /\ save /\ failure.chunk > 0
    /\ "CheckpointSaver" \in opt.callbacks
    /\ Len(opt.yi) > Len(x0_restored.func_vals)

\* C15: when the checkpoint file of a trial is lost before a resumed chunk, the
\* run ends with an exception: the minimizer is not called for that trial in that
\* chunk or in a later one with an empty history in place of the lost one, no
\* later chunk is run and Bayesian_optimization returns no result.
C15_LostCheckpointAborts ==
    lost.lost =>
        /\ pc \in {"trial", "call", "ret", "raised"}
        /\ chunk = lost.chunk
        /\ \A c \in CallsOf(lost.trial) : calls[c].chunk < lost.chunk
        /\ (pc \in {"call", "ret"} => opt.trial < lost.trial)
        /\ (pc = "trial" => i <= lost.trial)
        /\ (pc = "raised" /\ ~failure.raised /\ exception = "FileNotFoundError"
               => DumpsAfterChunk \/ i <= lost.trial)
        /\ report.built = FALSE

\* C15 witness: load(save_name_t) has raised for a trial other than the first,
\* after the trials before it had run the chunk.
C15_Witness ==
    /\ lost.lost /\ lost.trial > 0
    /\ pc = "raised" /\ exception = "FileNotFoundError"
    /\ i = lost.trial
    /\ \E c \in CallsOf(0) : calls[c].chunk = lost.chunk

\* C16: the checkpoint key of a trial is save_name + '_' + index: distinct trials
\* have distinct keys, every checkpoint file that exists is the key of the trial
\* that saved it (the key that trial loads from), and the file of a trial holds
\* evaluations of that trial only.
C16_KeyIsNameAndIndex ==
    /\ \A k1, k2 \in Trials : k1 # k2 => CheckpointKey(k1) # CheckpointKey(k2)
    /\ \A path \in DOMAIN checkpoint :
          /\ path = CheckpointKey(path.trial)
          /\ \A j \in 1 .. Len(checkpoint[path].x_iters) :
                checkpoint[path].x_iters[j][1] = path.trial

\* C17: every coherence metric's score() raises 'Words in topics are less than
\* topk' whenever topk exceeds the number of words of some topic, whichever topic
\* it is, a score that is returned was computed over at least topk words of every
\* topic, and the call made by the objective function ends with that same error.
C17_TooFewWordsRaises ==
    outcome # NoScore =>
        /\ ((\E t \in DOMAIN topics : topk > Len(topics[t]))
               => outcome.raised = "Words in topics are less than topk")
        /\ (outcome.raised = ""
               => \A t \in DOMAIN outcome.words : Len(outcome.words[t]) >= topk)

Smaller(a, b) == IF a < b THEN a ELSE b

C20_CallWithinRemaining ==
    \A c \in 1 .. Len(calls) :
        calls[c].n_calls <= number_of_call - calls[c].prior

\* C21: the chunk loop goes on to another iteration only while budget remains
\* and some trial is not stopped: once every trial is stopped the driver starts no
\* further iteration (no checkpoint load, no minimizer call) and no objective
\* evaluation is made.
C21_LoopStopsWhenAllStopped ==
    [][/\ (chunk' # chunk => number_of_call_r' > 0 /\ stopped # Trials)
       /\ (stopped = Trials => /\ partial_res' = partial_res
                                /\ calls' = calls
                                /\ iterations' = iterations)]_vars

\* The result r is one on which the early-stop rule fires: the result of the call
\* in which its trial stopped.
StoppedOn(r) == NoImprovement(r.func_vals, early_step, StopperRandomStarts)

\* C22: once res[k] holds the result on which trial k stopped, no later step
\* changes it (no later chunk, checkpoint save or load), and the list returned at
\* the end of the run holds that same entry for trial k.
C22_StoppedResultFrozen ==
    [][/\ \A k \in stopped \cap DOMAIN res :
             StoppedOn(res[k]) => k \in DOMAIN res' /\ res'[k] = res[k]
       /\ (optimize_result'.is_none = FALSE => optimize_result'.results = res')]_vars

\* C23: the early stop of a trial is decided on that trial's own history and
\* touches that trial only.  A step stops no trial but the one the for loop is at,
\* and only on a history of its own on which the rule fires; it changes the
\* history, the result and the flag of no other trial.  All the calls of a chunk
\* ask for the same number of evaluations, whichever trials are stopped, and a
\* trial that never stopped has been called in every chunk of the run.
C23_IndependentEarlyStop ==
    [][/\ stopped' \ stopped \subseteq {i}
       /\ \A k \in stopped' \ stopped : StoppedOn(History(k)')
       /\ \A j \in Trials \ {i} :
             /\ History(j)' = History(j)
             /\ (j \in DOMAIN early_stop_flag /\ j \in DOMAIN early_stop_flag'
                   => early_stop_flag'[j] = early_stop_flag[j])
       /\ \A c1, c2 \in 1 .. Len(calls') :
             calls'[c1].chunk = calls'[c2].chunk
                 => calls'[c1].n_calls = calls'[c2].n_calls
       /\ (pc' = "returned" /\ optimize_result'.is_none = FALSE =>
               \A j \in Trials \ stopped' :
                   \A ch \in 0 .. chunk' :
                       \E c \in 1 .. Len(calls') :
                           calls'[c].trial = j /\ calls'[c].chunk = ch)]_vars

\* C23 witness: a chunked run has ended in which one trial stopped early and
\* another was still called, and evaluated beyond it, in a later chunk.
C23_Witness ==
    /\ pc = "reported" /\ early_stop /\ chunk > 0
    /\ \E k \in stopped : \E j \in Trials \ {k} :
          /\ Len(res[j].func_vals) > Len(res[k].func_vals)
          /\ \E c \in CallsOf(j) : \A d \in CallsOf(k) : calls[c].chunk > calls[d].chunk

\* C24: every minimizer call of a run, in the first chunk and in resumed chunks
\* alike, goes to the minimizer strategy that was selected, and so does the call
\* that is running.
C24_SelectedStrategyOnly ==
    /\ \A c \in 1 .. Len(calls) : calls[c].strategy = minimizer
    /\ (pc \in {"call", "ret"} => opt.strategy = minimizer)

\* C25: with forest_minimize and a chunked run, the call of the first chunk of a
\* trial is given the configured n_random_starts and restores nothing, and every
\* call of a resumed chunk, of every trial, is given n_random_starts = 0.
C25_ForestRandomStartsOnce ==
    minimizer = "forest_minimize" /\ Chunked =>
        \A c \in 1 .. Len(calls) :
            /\ calls[c].strategy = "forest_minimize"
            /\ (calls[c].chunk = 0 => /\ calls[c].n_random_starts = n_random_starts
                                      /\ calls[c].resumed = FALSE)
            /\ (calls[c].chunk > 0 => /\ calls[c].n_random_starts = 0
                                      /\ calls[c].resumed = TRUE)

\* C25 witness: forest_minimize with more than one random start configured has
\* run a resumed chunk for a trial other than the first, in a run with save and
\* early_stop enabled, and has evaluated new points in it.
C25_Witness ==
    /\ minimizer = "forest_minimize" /\ Branch = "save_early"
    /\ n_random_starts > 1
    /\ pc = "ret" /\ chunk > 0 /\ opt.trial > 0
    /\ Len(opt.yi) > Len(x0_restored.func_vals)

\* C26: with gp_minimize, in every branch that chunks the run, every resumed call
\* of every trial is a run of a skopt Optimizer that the driver built with zero
\* initial random points and told the full restored history (the trial's history
\* at the end of its previous chunk) before the first evaluation of the chunk.
C26_GPTellBeforeRun ==
    minimizer = "gp_minimize" /\ Chunked =>
        /\ \A c \in 1 .. Len(calls) :
              calls[c].chunk > 0 =>
                  /\ calls[c].strategy = "gp_minimize"
                  /\ calls[c].n_random_starts = 0
                  /\ calls[c].resumed = TRUE
                  /\ calls[c].prior > 0
        /\ (pc \in {"call", "ret"} /\ chunk > 0 =>
              /\ x0_restored = res[opt.trial]
              /\ IsPrefix(x0_restored.x_iters, opt.Xi)
              /\ IsPrefix(x0_restored.func_vals, opt.yi))

\* Every trial has completed the chunk last started: the driver stands between
\* two chunks, or Bayesian_optimization has returned its list.
ChunkCompleted ==
    \/ pc = "trial" /\ i = 0 /\ chunk > 0
    \/ pc \in {"returned", "reported"} /\ optimize_result.is_none = FALSE

\* C27: with save enabled, whenever a chunk has been completed the checkpoint of
\* every trial, the file save_name + '_' + index that the trial is restored from,
\* exists and holds the trial's full history, the one of res[k].
C27_CheckpointEqualsResult ==
    save /\ ChunkCompleted =>
        \A k \in Trials :
            /\ CheckpointKey(k) \in DOMAIN checkpoint
            /\ checkpoint[CheckpointKey(k)] = res[k]

\* C28: with save disabled no checkpoint file is ever written and none is ever
\* loaded, whichever the minimizer and whether early_stop is enabled or not.
C28_NoSaveNoCheckpoint ==
    save = FALSE =>
        /\ checkpoint = <<>>
        /\ partial_res = <<>>
        /\ (pc \in {"call", "ret"} => x0_restored = EmptyResult)

\* C29: the history of a trial never gets shorter, whatever the step (a chunk, a
\* checkpoint reload, an early-stop check), and every minimizer call that returns
\* for a trial that is not stopped has added at least one evaluation to the
\* history the trial had after its previous chunk.
C29_HistoryGrows ==
    [][/\ \A k \in Trials :
             Len(History(k)'.func_vals) >= Len(History(k).func_vals)
       /\ (pc = "ret" /\ pc' = "trial" /\ i \in DOMAIN res /\ i \notin stopped
               => Len(res'[i].func_vals) > Len(res[i].func_vals))]_vars

\* C30: the minimizer calls are made one at a time, chunk after chunk and, within
\* a chunk, trial after trial in increasing index order, each trial at most once
\* per chunk; a trial is called in chunk c + 1 only after every trial that is not
\* stopped has returned from chunk c; and an objective evaluation is made only
\* for the one trial whose call is running. The log of calls only grows, so the
\* order and the barrier are stated for its latest call, in every state.
C30_SequentialTrialsChunkBarrier ==
    /\ (Len(calls) > 1 =>
          LET c == calls[Len(calls) - 1]
              d == calls[Len(calls)]
          IN \/ c.chunk < d.chunk
             \/ c.chunk = d.chunk /\ c.trial < d.trial)
    /\ (calls # <<>> /\ calls[Len(calls)].chunk > 0 =>
          \A k \in Trials :
              \/ \E d \in 1 .. Len(calls) :
                    calls[d].trial = k /\ calls[d].chunk = calls[Len(calls)].chunk - 1
              \/ k \in stopped)
    /\ (pc \in {"call", "ret"} =>
          /\ opt.trial = i
          /\ calls # <<>>
          /\ calls[Len(calls)].trial = i /\ calls[Len(calls)].chunk = chunk)
    /\ (pc = "trial" =>
          \A c \in 1 .. Len(calls) : calls[c].chunk = chunk => calls[c].trial < i)

\* C30 witness: the last trial is being evaluated in a resumed chunk, after two
\* other trials were called in that chunk and all three in the chunk before.
C30_Witness ==
    /\ pc = "ret" /\ chunk > 0 /\ different_iteration = MaxTrials
    /\ i = different_iteration - 1 /\ opt.trial = i
    /\ Len(opt.yi) > Len(x0_restored.func_vals)
    /\ \A k \in Trials : \A ch \in 0 .. chunk :
          \E c \in CallsOf(k) : calls[c].chunk = ch

\* C31: every objective evaluation that completes appends exactly one record to
\* self._iterations, at its end: the point evaluated and the metric score as the
\* metric gave it (not negated, in both directions, while the minimizer is told
\* the negated score under 'Maximize'); no other step changes the log, except
\* optimize() emptying it when it starts; and the log of the report is that log,
\* one record per evaluation of each trial.
C31_OneRecordPerEvaluation ==
    [][/\ IF pc = "call" /\ Len(opt'.yi) = Len(opt.yi) + 1
           THEN \E score \in Scores :
                   /\ iterations' = Append(iterations,
                                           iteration(opt'.Xi[Len(opt'.Xi)], score))
                   /\ iterations'[Len(iterations')].metrics_values = score
                   /\ opt'.yi[Len(opt'.yi)] = (IF optimization_type = "Maximize"
                                                THEN 0 - score ELSE score)
           ELSE \/ iterations' = iterations
                \/ pc = "optimize" /\ iterations' = <<>>
       /\ (pc' = "reported" /\ pc # "reported" =>
               /\ report'.iterations = iterations
               /\ \A e \in 1 .. Len(iterations) :
                     iterations[e].metrics_values \in Scores)]_vars

\* C31 witness: a reported 'Maximize' run of several chunks whose log holds a
\* score other than the base score.
C31_Witness ==
    /\ pc = "reported" /\ optimization_type = "Maximize" /\ chunk > 0
    /\ Len(report.iterations) > different_iteration
    /\ \E e \in 1 .. Len(report.iterations) :
          report.iterations[e].metrics_values # BaseScore

\* ------------------------------------- _objective_function's dictionaries
MaxExtra == 3

\* The parameter names of a search space, in the order of Python's string
\* comparison.
ParameterNames == <<"alpha", "eta", "num_topics">>
Before(a, b) ==
    \E j, k \in DOMAIN ParameterNames :
        ParameterNames[j] = a /\ ParameterNames[k] = b /\ j < k

\* The dictionaries a search space can be: their keys, in insertion order.
SearchSpaces ==
    {s \in SeqsUpTo({ParameterNames[j] : j \in DOMAIN ParameterNames}, Len(ParameterNames)) :
        \A j, k \in DOMAIN s : j # k => s[j] # s[k]}

RECURSIVE sorted(_)
\* Python's sorted() of a list of strings.
sorted(keys) ==
    IF keys = <<>> THEN <<>>
    ELSE LET rest == sorted(Tail(keys))
             e == Head(keys)
         IN SelectSeq(rest, LAMBDA x : Before(x, e)) \o <<e>>
               \o SelectSeq(rest, LAMBDA x : ~Before(x, e))

\* Mutant of Labels: the keys are taken in the order of the dictionary.
Labels_Unsorted(space) == space

\* optimize(): self.hyperparameters = list(sorted(self.search_space.keys())).
Labels(space) == sorted(space)

\* search_space[name]: the dimension declared for the name.
Dimension(name) == [declared_for |-> name]

\* skopt.utils.dimensions_aslist: the dimensions in the order of the sorted keys.
dimensions_aslist(space) ==
    [j \in DOMAIN sorted(space) |-> Dimension(sorted(space)[j])]

\* The point a minimizer asks: one value per dimension of bounds, in their order.
Ask(bounds) == [j \in DOMAIN bounds |-> [sampled_from |-> bounds[j].declared_for]]

\* _objective_function: params[self.hyperparameters[i]] = hyperparameters[i] for
\* i in range(len(self.hyperparameters)); a later assignment of a name wins.
Params(labels, vector) ==
    [name \in {labels[j] : j \in DOMAIN labels} |->
        vector[CHOOSE j \in DOMAIN labels :
                  labels[j] = name /\ \A k \in DOMAIN labels : labels[k] = name => k <= j]]

\* The keys of metrics_values: a class name, <<name>>, or a class name followed
\* by " " and a counter, <<name, counter>>.
RECURSIVE Counter(_, _, _)
\* The while loop: the first counter from k on whose name is not yet a key.
Counter(values, class, k) ==
    IF <<class, k>> \in DOMAIN values THEN Counter(values, class, k + 1) ELSE k

\* Mutant of MetricName: every metric is stored under its class name.
MetricName_Class(values, class) == <<class>>

\* The name under which the score of an extra metric of this class is stored.
MetricName(values, class) ==
    IF <<class>> \notin DOMAIN values THEN <<class>>
    ELSE <<class, Counter(values, class, 2)>>

RECURSIVE MetricsValues(_, _, _)
\* The for loop over self.extra_metrics from its k-th element on.  The score of
\* a metric object is named after the object: 0 for self.metric, k for the k-th
\* extra metric.
MetricsValues(values, extras, k) ==
    IF k > Len(extras) THEN values
    ELSE MetricsValues((MetricName(values, extras[k]) :> k) @@ values, extras, k + 1)

InitObjective ==
    /\ default_parameters = DefaultParameters
    /\ ThroughOptimize
    /\ Idle
    /\ varied = 0
    /\ metric \in CoherenceMetrics
    /\ topics = <<>>
    /\ topk = 0
    /\ outcome = NoScore
    /\ search_space \in SearchSpaces
    /\ hyperparameters = <<>>
    /\ params = <<>>
    /\ extra_metrics \in SeqsUpTo(CoherenceMetrics, MaxExtra)
    /\ metrics_values = <<>>
    /\ NoProcess

\* optimize(): the parameter labels are saved.
optimize_labels ==
    /\ pc = "optimize"
    /\ hyperparameters' = Labels(search_space)
    /\ pc' = "objective"
    /\ UNCHANGED <<default_parameters, message, chunk, i, res, number_of_call_r,
                   early_stop_flag, checkpoint, partial_res, x0_restored, opt,
                   iterations, optimize_result, report, exception, calls, stopped,
                   varied, env_vars, metric_vars, search_space, params,
                   extra_metrics, metrics_values, process_vars, arguments>>

\* _objective_function on a point asked from dimensions_aslist(search_space):
\* the params dictionary.
objective_function_params ==
    /\ pc = "objective"
    /\ params' = Params(hyperparameters, Ask(dimensions_aslist(search_space)))
    /\ pc' = "score"
    /\ UNCHANGED <<default_parameters, message, chunk, i, res, number_of_call_r,
                   early_stop_flag, checkpoint, partial_res, x0_restored, opt,
                   iterations, optimize_result, report, exception, calls, stopped,
                   varied, env_vars, metric_vars, search_space, hyperparameters,
                   extra_metrics, metrics_values, process_vars, arguments>>

\* _objective_function: the metrics_values dictionary, from the primary metric
\* and the extra metrics.
objective_function_metrics ==
    /\ pc = "score"
    /\ metrics_values' = MetricsValues((<<metric>> :> 0), extra_metrics, 1)
    /\ pc' = "scored"
    /\ UNCHANGED <<default_parameters, message, chunk, i, res, number_of_call_r,
                   early_stop_flag, checkpoint, partial_res, x0_restored, opt,
                   iterations, optimize_result, report, exception, calls, stopped,
                   varied, env_vars, metric_vars, search_space, hyperparameters,
                   params, extra_metrics, process_vars, arguments>>

NextObjective ==
    \/ optimize_labels
    \/ objective_function_params
    \/ objective_function_metrics

SpecObjective == InitObjective /\ [][NextObjective]_vars

\* The metrics before the k-th extra metric that have its class.
SameClassBefore(k) ==
    (IF metric = extra_metrics[k] THEN 1 ELSE 0)
        + Cardinality({j \in 1 .. (k - 1) : extra_metrics[j] = extra_metrics[k]})

\* C32: the metrics_values dictionary of an evaluation has 1 + len(extra_metrics)
\* entries; the primary metric's score is under its class name; the score of an
\* extra metric is under its class name when no metric before it has that class,
\* and under 'N c' when c - 1 metrics before it have class N (c = 2, 3, ...).
C32_DistinctMetricNames ==
    pc = "scored" =>
        /\ Cardinality(DOMAIN metrics_values) = 1 + Len(extra_metrics)
        /\ metrics_values[<<metric>>] = 0
        /\ \A k \in DOMAIN extra_metrics :
              LET name == IF SameClassBefore(k) = 0 THEN <<extra_metrics[k]>>
                          ELSE <<extra_metrics[k], SameClassBefore(k) + 1>>
              IN name \in DOMAIN metrics_values /\ metrics_values[name] = k

\* C32 witness: three extra metrics of the primary metric's class: 'N 2', 'N 3'
\* and 'N 4' are in use.
C32_Witness ==
    /\ pc = "scored" /\ Len(extra_metrics) = MaxExtra
    /\ \A k \in DOMAIN extra_metrics : extra_metrics[k] = metric
    /\ <<metric, MaxExtra + 1>> \in DOMAIN metrics_values

\* C33: self.hyperparameters is the sorted list of the search space's keys, and
\* the params dictionary given to the training collaborator has every key of
\* the search space once, with the value sampled from the dimension declared
\* for that key.
C33_SortedPositionalContract ==
    LET keys == {search_space[j] : j \in DOMAIN search_space}
    IN /\ (pc # "optimize" =>
              /\ Len(hyperparameters) = Len(search_space)
              /\ {hyperparameters[j] : j \in DOMAIN hyperparameters} = keys
              /\ \A j, k \in DOMAIN hyperparameters :
                    j < k => Before(hyperparameters[j], hyperparameters[k]))
       /\ (pc \in {"score", "scored"} =>
              /\ DOMAIN params = keys
              /\ \A name \in keys : params[name].sampled_from = name)

\* C33 witness: a search space whose dictionary order is not the sorted order.
C33_Witness ==
    /\ pc = "scored" /\ Len(search_space) = Len(ParameterNames)
    /\ search_space # hyperparameters
    /\ DOMAIN params = {search_space[j] : j \in DOMAIN search_space}

\* ------------------------------------------ the Optimizers of one process
MaxOptimizers == 2
MaxRuns == 3
MaxEvaluations == 1

\* The optimization_parameters dictionaries an Optimizer is constructed with.
OptimizationParameters ==
    {<<>>,
     [save |-> TRUE],
     [early_stop |-> TRUE, early_step |-> 1],
     [minimizer |-> "dummy_minimize", optimization_type |-> "Minimize"]}

\* dict.update: the keys of `given` are set in `dictionary`, the others are kept.
Update(dictionary, given) ==
    [key \in DOMAIN dictionary \cup DOMAIN given |->
        IF key \in DOMAIN given THEN given[key] ELSE dictionary[key]]

\* Mutant of Emptied: optimize() leaves self._iterations as it is.
Emptied_Kept(optimizer) == optimizer

\* self._iterations = []: the instance gets an attribute of its own, which hides
\* the class attribute from then on.
Emptied(optimizer) == [optimizer EXCEPT !.own = TRUE, !.iterations = <<>>]

\* self._iterations: the instance's attribute when it has one, else the class's.
Iterations(optimizer, class_iterations) ==
    IF optimizer.own THEN optimizer.iterations ELSE class_iterations

\* The records _objective_function appends during the run-th optimize() call
\* of the process, when it makes n evaluations.
Evaluations(run, n) == [e \in 1 .. n |-> [run |-> run, evaluation |-> e]]

InitProcess ==
    /\ default_parameters = DefaultParameters
    /\ ThroughOptimize
    /\ Idle
    /\ varied = 0
    /\ NoMetric
    /\ NoObjective
    /\ NoProcess

\* Optimizer(model, dataset, metric, search_space, optimization_parameters).
Optimizer_init ==
    /\ Len(optimizers) < MaxOptimizers
    /\ \E given \in OptimizationParameters :
          optimizers' = Append(optimizers,
                               [optimization_parameters |-> given, own |-> FALSE,
                                iterations |-> <<>>])
    /\ UNCHANGED <<default_parameters, pc, message, chunk, i, res, number_of_call_r,
                   early_stop_flag, checkpoint, partial_res, x0_restored, opt,
                   iterations, optimize_result, report, exception, calls, stopped,
                   varied, env_vars, metric_vars, objective_vars,
                   Optimizer_iterations, reports, arguments>>

\* One optimize() call of an Optimizer, from its first statement to the
\* Best_evaluation: self._iterations is emptied, default_parameters is updated,
\* the run appends a record per evaluation to self._iterations, and the report
\* is built from self._iterations.
optimize ==
    /\ Len(reports) < MaxRuns
    /\ \E k \in DOMAIN optimizers : \E n \in 0 .. MaxEvaluations :
          LET self == Emptied(optimizers[k])
              run == Len(reports) + 1
              configuration == Update(default_parameters, self.optimization_parameters)
              log == Iterations(self, Optimizer_iterations) \o Evaluations(run, n)
          IN /\ default_parameters' = configuration
             /\ optimizers' = IF self.own
                               THEN [optimizers EXCEPT ![k] = [self EXCEPT !.iterations = log]]
                               ELSE [optimizers EXCEPT ![k] = self]
             /\ Optimizer_iterations' = IF self.own THEN Optimizer_iterations ELSE log
             /\ reports' = Append(reports,
                                  [optimizer |-> k,
                                   given |-> self.optimization_parameters,
                                   configuration |-> configuration,
                                   iterations |-> log])
    /\ UNCHANGED <<pc, message, chunk, i, res, number_of_call_r,
                   early_stop_flag, checkpoint, partial_res, x0_restored, opt,
                   iterations, optimize_result, report, exception, calls, stopped,
                   varied, env_vars, metric_vars, objective_vars, arguments>>

NextProcess ==
    \/ Optimizer_init
    \/ optimize

SpecProcess == InitProcess /\ [][NextProcess]_vars

\* C34: the iteration log reported by an optimize() call holds the evaluations of
\* that call only, whatever optimize() calls were made before it on the same or
\* on other Optimizers, and the class attribute Optimizer._iterations stays empty.
C34_LogOfThisCallOnly ==
    /\ Optimizer_iterations = <<>>
    /\ \A r \in DOMAIN reports :
          \A e \in DOMAIN reports[r].iterations : reports[r].iterations[e].run = r

\* C34 witness: an Optimizer has reported two runs with evaluations, and another
\* Optimizer one.
C34_Witness ==
    /\ Len(reports) = MaxRuns
    /\ \A r \in DOMAIN reports : reports[r].iterations # <<>>
    /\ \E r, s \in DOMAIN reports :
          r < s /\ reports[r].optimizer = reports[s].optimizer
    /\ \E r, s \in DOMAIN reports : reports[r].optimizer # reports[s].optimizer

\* C35: an optimize() call runs with the documented default value of every
\* option that its Optimizer was not given, whatever options the optimize() calls
\* before it were given.
C35_ConfigurationPerRun ==
    \A r \in DOMAIN reports :
        \A key \in DOMAIN DefaultParameters :
            key \notin DOMAIN reports[r].given =>
                reports[r].configuration[key] = DefaultParameters[key]

\* C36: every iteration of the chunk loop strictly decreases the remaining
\* budget number_of_call_r, for every minimizer, every save/early_stop
\* combination and every save_step and early_step the validation lets through,
\* so that the loop ends after at most number_of_call iterations.
C36_BudgetStrictlyDecreases ==
    [][/\ (pc = "trial" /\ i = different_iteration /\ chunk > 0 =>
               number_of_call_r' < number_of_call_r)
       /\ chunk' <= number_of_call]_vars

\* C37: in a call of Bayesian_optimization with early_stop enabled, whenever a
\* minimizer that takes an n_random_starts (forest_minimize, the skopt Optimizer
\* of the GP section) runs with the early-stop rule, the warm-up count given to
\* the rule is the n_random_starts given to that minimizer, also when
\* Bayesian_optimization is given an n_random_starts that is not the one in
\* default_parameters.
C37_WarmUpIsMinimizerArgument ==
    /\ early_stop
    /\ pc \in {"call", "ret"}
    /\ GPEarly \/ "MyCustomEarlyStopper" \in opt.callbacks
    /\ opt.strategy # "dummy_minimize"
    => StopperRandomStarts = calls[Len(calls)].n_random_starts
====
